---- MODULE Spec2Model ----
(***************************************************************************)
(* Model of src/main.py: the WebSocket connection manager, the /ws        *)
(* endpoint, the serial reader thread and the serial/data HTTP handlers.  *)
(*                                                                         *)
(* Two kinds of process run: coroutines on the asyncio event loop, which   *)
(* interleave only at an await, and reader threads, which interleave with  *)
(* everything at every access of a global.  A handler without an await     *)
(* that touches globals the threads also touch is split at those accesses  *)
(* and holds the event loop (variable loop) until it returns.              *)
(***************************************************************************)
EXTENDS Integers, Sequences, FiniteSets, TLC

(* ------------------------------ bounds -------------------------------- *)
\* WebSocket objects that may ever be accepted
NumConns == 2
\* WebSocket objects that may ever be accepted where the manager is explored alone
ManagerConns == 3
\* successful serial.Serial(...) constructions (= reader threads started)
MaxThreads == 2
\* non-empty lines the device delivers
MaxLines == 3
\* lines already read, their broadcasts scheduled, where the registry is explored
RegistryLines == 2
\* non-empty lines the device delivers where reader and registry run together
PushLines == 1
\* the deque's maxlen, 1000 at src/main.py:38, scaled down so that eviction happens
BufferMaxLen == 2

Conns == 1..NumConns
Sockets == 1..ManagerConns
Threads == 1..MaxThreads
Lines == 1..MaxLines
None == 0

VARIABLES
    manager,            \* ConnectionManager: active_connections, connection_ids
    ws,                 \* per WebSocket: the endpoint coroutine's position and locals
    peerClosed,         \* per WebSocket: the client has gone away
    client,             \* the module-level AsyncOpenAI client exists (API key set)
    bc,                 \* per line: the broadcast coroutine scheduled for it
    serial_connection,  \* global: None or the current Serial object
    serialOpen,         \* per Serial object: is_open
    nSerial,            \* Serial objects constructed so far
    is_reading_serial,  \* global flag
    serial_data_buffer, \* global deque(maxlen)
    data_log,           \* global list
    threads,            \* per reader thread: position and local line
    loop,               \* the synchronous handler holding the event loop, if any
    nextLine,           \* next line the device delivers
    lastLine,           \* last line the device delivers in this run
    appended            \* history: samples appended to the deque since its last clear

vars == <<manager, ws, peerClosed, client, bc, serial_connection, serialOpen, nSerial,
          is_reading_serial, serial_data_buffer, data_log, threads, loop, nextLine,
          lastLine, appended>>

wsVars == <<manager, ws, peerClosed, bc>>
serialVars == <<serial_connection, serialOpen, nSerial, is_reading_serial, threads>>
dataVars == <<serial_data_buffer, data_log, nextLine, lastLine, appended>>

(* ------------------------- sequence helpers --------------------------- *)
Range(s) == {s[i] : i \in 1..Len(s)}

RECURSIVE IndexOf(_, _, _)
IndexOf(s, x, i) ==
    IF i > Len(s) THEN 0 ELSE IF s[i] = x THEN i ELSE IndexOf(s, x, i + 1)

\* list.remove(x): drops the first occurrence of x, or raises ValueError
ListRemove(s, x) ==
    LET k == IndexOf(s, x, 1)
    IN  IF k = 0
        THEN [lst |-> s, raised |-> TRUE]
        ELSE [lst |-> SubSeq(s, 1, k - 1) \o SubSeq(s, k + 1, Len(s)),
              raised |-> FALSE]

Count(s, x) == Cardinality({i \in 1..Len(s) : s[i] = x})

LastN(s, n) == SubSeq(s, Len(s) - n + 1, Len(s))

Min(a, b) == IF a < b THEN a ELSE b

\* del d[k]
DictDel(d, k) == [x \in (DOMAIN d) \ {k} |-> d[x]]

\* d[k] = v
DictSet(d, k, v) == [x \in (DOMAIN d) \cup {k} |-> IF x = k THEN v ELSE d[x]]

(* ------------------------- ConnectionManager -------------------------- *)
\* __init__
ManagerInit == [active_connections |-> <<>>, connection_ids |-> <<>>]

\* a connect that appends and does not tag
connectUntagged(m, websocket) ==
    [active_connections |-> Append(m.active_connections, websocket),
     connection_ids |-> m.connection_ids]

\* connect, after the accept: append, then tag with client_<len>
connect(m, websocket) ==
    LET lst == Append(m.active_connections, websocket)
    IN  [active_connections |-> lst,
         connection_ids |-> DictSet(m.connection_ids, websocket, Len(lst))]

\* a disconnect that forgets the del of the identifier
disconnectLeavesId(m, websocket) ==
    IF websocket \in Range(m.active_connections)
    THEN LET r == ListRemove(m.active_connections, websocket)
         IN  [m |-> [active_connections |-> r.lst,
                     connection_ids |-> m.connection_ids],
              raised |-> r.raised]
    ELSE [m |-> m, raised |-> FALSE]

\* a disconnect without its `if websocket in self.active_connections` guard
disconnectNoGuard(m, websocket) ==
    LET r == ListRemove(m.active_connections, websocket)
    IN  [m |-> [active_connections |-> r.lst,
                connection_ids |->
                    IF websocket \in DOMAIN m.connection_ids
                    THEN DictDel(m.connection_ids, websocket)
                    ELSE m.connection_ids],
         raised |-> r.raised]

\* disconnect: the manager afterwards, and whether the call raised
disconnect(m, websocket) ==
    IF websocket \in Range(m.active_connections)
    THEN LET r == ListRemove(m.active_connections, websocket)
         IN  [m |-> [active_connections |-> r.lst,
                     connection_ids |->
                         IF websocket \in DOMAIN m.connection_ids
                         THEN DictDel(m.connection_ids, websocket)
                         ELSE m.connection_ids],
              raised |-> r.raised]
    ELSE [m |-> m, raised |-> FALSE]

Registered(c) == c \in Range(manager.active_connections)

\* send_text on a connection: it can raise only once the peer has gone
SendOutcomes(c) == IF peerClosed[c] THEN BOOLEAN ELSE {TRUE}

(* ----------------------------- broadcast ------------------------------ *)
\* The broadcast coroutine of one line.  idx is the list iterator's index into
\* manager.active_connections, cur the connection whose send_text is awaited,
\* disconnected the local list.  sent, whole, removed and atRead are history:
\* the send_text calls made, the connections registered ever since the
\* broadcast started, the connections its cleanup removed, and the connections
\* registered ever since the line was read (up to the end of the broadcast).
NoBroadcast ==
    [pc |-> "none", idx |-> 0, cur |-> None, disconnected |-> <<>>,
     sent |-> <<>>, whole |-> {}, removed |-> {}, atRead |-> {}]

\* next() of a list iterator: the index is kept, the list is read afresh
iterNext(idx, lst) ==
    IF idx < Len(lst)
    THEN [has |-> TRUE, item |-> lst[idx + 1], idx |-> idx + 1]
    ELSE [has |-> FALSE, item |-> None, idx |-> idx]

\* a cleanup that stops after the first connection that failed
broadcastCleanupFirstOnly(m, disconnected) ==
    IF disconnected = <<>>
    THEN [m |-> m, raised |-> FALSE]
    ELSE disconnect(m, Head(disconnected))

\* the second loop of broadcast: disconnect every connection that failed
RECURSIVE broadcastCleanup(_, _)
broadcastCleanup(m, disconnected) ==
    IF disconnected = <<>>
    THEN [m |-> m, raised |-> FALSE]
    ELSE LET r == disconnect(m, Head(disconnected))
         IN  IF r.raised THEN r ELSE broadcastCleanup(r.m, Tail(disconnected))

\* history: the broadcasts not finished, other than self, see the connections
\* gone being deregistered
NoteGone(b, gone, self) ==
    [l \in Lines |->
        IF l # self /\ b[l].pc \in {"none", "pending", "sending"}
        THEN [b[l] EXCEPT !.whole = @ \ gone, !.atRead = @ \ gone]
        ELSE b[l]]

\* the for loop of broadcast from its iterator's next() on, up to the next await
\* of a send_text or, the list exhausted, through the cleanup to the end
broadcastAdvance(m, b, l, disconnected) ==
    LET it == iterNext(b[l].idx, m.active_connections)
        r  == broadcastCleanup(m, disconnected)
        gone == Range(m.active_connections) \ Range(r.m.active_connections)
    IN  IF it.has
        THEN [m |-> m,
              bc |-> [b EXCEPT ![l].pc = "sending", ![l].idx = it.idx,
                               ![l].cur = it.item, ![l].disconnected = disconnected,
                               ![l].sent = Append(@, it.item)]]
        ELSE [m |-> r.m,
              bc |-> [NoteGone(b, gone, l) EXCEPT
                               ![l].pc = IF r.raised THEN "raised" ELSE "done",
                               ![l].idx = 0, ![l].cur = None,
                               ![l].disconnected = disconnected,
                               ![l].removed = gone]]

\* the scheduled coroutine starts running on the event loop
BroadcastBegin(l) ==
    /\ loop = "idle"
    /\ bc[l].pc = "pending"
    /\ LET r == broadcastAdvance(manager,
                    [bc EXCEPT ![l].whole = Range(manager.active_connections)], l, <<>>)
       IN  manager' = r.m /\ bc' = r.bc
    /\ UNCHANGED <<ws, peerClosed, client, serialVars, dataVars, loop>>

\* the awaited send_text returns or raises; the loop goes on
BroadcastSendReturn(l) ==
    /\ loop = "idle"
    /\ bc[l].pc = "sending"
    /\ \E ok \in SendOutcomes(bc[l].cur) :
          LET disc == IF ok THEN bc[l].disconnected
                      ELSE Append(bc[l].disconnected, bc[l].cur)
              r == broadcastAdvance(manager, bc, l, disc)
          IN  manager' = r.m /\ bc' = r.bc
    /\ UNCHANGED <<ws, peerClosed, client, serialVars, dataVars, loop>>

(* ------------------------- websocket_endpoint ------------------------- *)
\* The frames a client can send, by what the handler does with them:
\*   chat            a JSON object of type "chat" (or without a type)
\*   text            text that json.loads rejects (JSONDecodeError)
\*   serial_command  a JSON object of type "serial_command"
\*   ping            a JSON object of type "ping"
\*   unknown         a JSON object of any other type
\*   nonobject       valid JSON that is no object: data.get raises AttributeError
FrameKinds == {"chat", "text", "serial_command", "ping", "unknown", "nonobject"}

\* pc: new (not accepted yet), receive (awaiting receive_text), api (awaiting
\* client.chat.completions.create), send (awaiting send_text inside
\* send_personal_message), closed (the endpoint returned).
\* frame: the frame being handled, kept until the next one arrives; reply: the
\* message whose send_text the handler has called for that frame, if any.
\* An endpoint that has returned has no locals left; frame then is history,
\* the frame whose handling raised out of the loop, if one did.
NewEndpoint == [pc |-> "new", frame |-> "none", reply |-> "none"]

ClosedEndpoint == [pc |-> "closed", frame |-> "none", reply |-> "none"]

\* a remote call that does not yield: while a handler is in it, no other runs
RunnableBlockingApi(c) ==
    loop = "idle" /\ \A d \in Sockets \ {c} : ws[d].pc # "api"

\* The endpoint coroutine of connection c, ready at one of its awaits, runs
\* when the event loop is free of a synchronous handler; the other coroutines,
\* each suspended at an await of its own, do not hold it
Runnable(c) == loop = "idle"

\* manager.disconnect called from a coroutine for connection c
DisconnectStep(c) ==
    LET r == disconnect(manager, c)
    IN  /\ manager' = r.m
        /\ bc' = NoteGone(bc, {c} \cap Range(manager.active_connections), None)

\* await manager.connect(websocket): accept, register, tag
EndpointConnect(c) ==
    /\ Runnable(c)
    /\ ws[c].pc = "new"
    /\ \A d \in Sockets : d < c => ws[d].pc # "new"
    /\ manager' = connect(manager, c)
    /\ ws' = [ws EXCEPT ![c].pc = "receive"]
    /\ UNCHANGED <<peerClosed, client, bc, serialVars, dataVars, loop>>

\* the client goes away: later receives raise WebSocketDisconnect, sends may raise
ClientClose(c) ==
    /\ ws[c].pc \notin {"new", "closed"}
    /\ ~peerClosed[c]
    /\ peerClosed' = [peerClosed EXCEPT ![c] = TRUE]
    /\ UNCHANGED <<manager, ws, client, bc, serialVars, dataVars, loop>>

\* receive_text raises: the except clauses of the endpoint call manager.disconnect
EndpointDisconnected(c) ==
    /\ Runnable(c)
    /\ ws[c].pc = "receive"
    /\ peerClosed[c]
    /\ DisconnectStep(c)
    /\ ws' = [ws EXCEPT ![c] = ClosedEndpoint]
    /\ UNCHANGED <<peerClosed, client, serialVars, dataVars, loop>>

\* what the handler does with a frame up to its first await:
\* the next pc and the reply it is about to send
Dispatch(kind, hasClient, serialUp, writeOk) ==
    CASE kind \in {"chat", "text"} ->
             IF hasClient THEN [pc |-> "api", reply |-> "none"]
             ELSE [pc |-> "receive", reply |-> "none"]
      [] kind = "serial_command" ->
             IF serialUp
             THEN IF writeOk THEN [pc |-> "send", reply |-> "serial_response"]
                  ELSE [pc |-> "raise", reply |-> "none"]
             ELSE [pc |-> "send", reply |-> "serial_error"]
      [] kind = "ping" -> [pc |-> "send", reply |-> "pong"]
      [] kind = "unknown" -> [pc |-> "receive", reply |-> "none"]
      [] kind = "nonobject" -> [pc |-> "raise", reply |-> "none"]

\* `serial_connection and serial_connection.is_open`
SerialUp == serial_connection # None /\ serialOpen[serial_connection]

\* receive_text returns a frame; the handler runs to its first await, back to
\* receive_text, or into the outer except clause, after which the endpoint
\* returns and the server closes the socket
EndpointReceive(c) ==
    /\ Runnable(c)
    /\ ws[c].pc = "receive"
    /\ ~peerClosed[c]
    /\ \E kind \in FrameKinds, writeOk \in BOOLEAN :
          LET d == Dispatch(kind, client, SerialUp, writeOk)
              w == [pc |-> d.pc, frame |-> kind, reply |-> d.reply]
          IN  /\ (~writeOk) => (kind = "serial_command" /\ SerialUp)
              /\ IF d.pc = "raise"
                 THEN /\ DisconnectStep(c)
                      /\ ws' = [ws EXCEPT ![c] = [ClosedEndpoint EXCEPT !.frame = kind]]
                      /\ peerClosed' = [peerClosed EXCEPT ![c] = TRUE]
                 ELSE /\ ws' = [ws EXCEPT ![c] = w]
                      /\ UNCHANGED <<manager, bc, peerClosed>>
    /\ UNCHANGED <<client, serialVars, dataVars, loop>>

\* the reply the handler sends once the remote call has returned or raised
ApiReply(kind, ok) ==
    IF kind = "chat"
    THEN IF ok THEN "chat_response" ELSE "error"
    ELSE IF ok THEN "plain_reply" ELSE "plain_error"

\* client.chat.completions.create returns or raises
EndpointApiReturn(c) ==
    /\ Runnable(c)
    /\ ws[c].pc = "api"
    /\ \E ok \in BOOLEAN :
          ws' = [ws EXCEPT ![c].pc = "send", ![c].reply = ApiReply(ws[c].frame, ok)]
    /\ UNCHANGED <<manager, peerClosed, client, bc, serialVars, dataVars, loop>>

\* send_personal_message: the awaited send_text returns, or raises and the
\* connection is deregistered; either way the handler is back at receive_text
EndpointSendReturn(c) ==
    /\ Runnable(c)
    /\ ws[c].pc = "send"
    /\ \E ok \in SendOutcomes(c) :
          IF ok THEN UNCHANGED <<manager, bc>> ELSE DisconnectStep(c)
    /\ ws' = [ws EXCEPT ![c].pc = "receive"]
    /\ UNCHANGED <<peerClosed, client, serialVars, dataVars, loop>>

(* ------------------------ serial reader thread ------------------------ *)
\* an append that never evicts
dequeAppendNoEvict(buf, x) == Append(buf, x)

\* deque(maxlen=BufferMaxLen).append: a full deque drops its oldest item
dequeAppend(buf, x) ==
    IF Len(buf) >= BufferMaxLen THEN Append(Tail(buf), x) ELSE Append(buf, x)

\* pc of a reader thread: unborn, then the accesses of globals in the loop of
\* read_serial_data in order (while_flag, while_conn, in_waiting, readline,
\* append_buffer, append_log, schedule), except (the handler at line 124),
\* exited.  The sleep touches nothing and is part of the step before it.
\* err, while the thread is in the handler: the Serial object whose read
\* raised, None when the exception came from something else.
NewThread == [pc |-> "unborn", line |-> None, err |-> None]

\* a read of the port through the global raises when the global is None
\* (AttributeError) or the port is closed
PortDown == serial_connection = None \/ ~serialOpen[serial_connection]

\* `while is_reading_serial ...`: the flag is read first
ReaderTestFlag(t) ==
    /\ threads[t].pc = "while_flag"
    /\ threads' = [threads EXCEPT ![t].pc =
                      IF is_reading_serial THEN "while_conn" ELSE "exited"]
    /\ UNCHANGED <<wsVars, client, serial_connection, serialOpen, nSerial,
                   is_reading_serial, dataVars, loop>>

\* `... and serial_connection`: a Serial object is truthy, open or closed
ReaderTestConn(t) ==
    /\ threads[t].pc = "while_conn"
    /\ threads' = [threads EXCEPT ![t].pc =
                      IF serial_connection # None THEN "in_waiting" ELSE "exited"]
    /\ UNCHANGED <<wsVars, client, serial_connection, serialOpen, nSerial,
                   is_reading_serial, dataVars, loop>>

\* `serial_connection.in_waiting > 0`: nothing waiting (sleep, loop), bytes
\* waiting, or the read raises
ReaderInWaiting(t) ==
    /\ threads[t].pc = "in_waiting"
    /\ \E out \in {"none", "data", "error"} :
          /\ PortDown => out = "error"
          /\ threads' = [threads EXCEPT
                 ![t].pc = CASE out = "none" -> "while_flag"
                             [] out = "data" -> "readline"
                             [] out = "error" -> "except",
                 ![t].err = IF out = "error" THEN serial_connection ELSE None]
    /\ UNCHANGED <<wsVars, client, serial_connection, serialOpen, nSerial,
                   is_reading_serial, dataVars, loop>>

\* `serial_connection.readline().decode('utf-8').strip()`: a line, an empty
\* line (sleep, loop), or the read or the decoding raises
ReaderReadline(t) ==
    /\ threads[t].pc = "readline"
    /\ \E out \in {"line", "empty", "error"} :
          /\ PortDown => out = "error"
          /\ out = "line" => nextLine <= lastLine
          /\ threads' = [threads EXCEPT
                 ![t].pc = CASE out = "line" -> "append_buffer"
                             [] out = "empty" -> "while_flag"
                             [] out = "error" -> "except",
                 ![t].line = IF out = "line" THEN nextLine ELSE None,
                 ![t].err = IF out = "error" THEN serial_connection ELSE None]
          /\ nextLine' = IF out = "line" THEN nextLine + 1 ELSE nextLine
          /\ bc' = IF out = "line"
                   THEN [bc EXCEPT ![nextLine].atRead = Range(manager.active_connections)]
                   ELSE bc
    /\ UNCHANGED <<manager, ws, peerClosed, client, serial_connection, serialOpen,
                   nSerial, is_reading_serial, serial_data_buffer, data_log, lastLine,
                   appended, loop>>

\* serial_data_buffer.append(data_point)
ReaderAppendBuffer(t) ==
    /\ threads[t].pc = "append_buffer"
    /\ serial_data_buffer' = dequeAppend(serial_data_buffer, threads[t].line)
    /\ appended' = Append(appended, threads[t].line)
    /\ threads' = [threads EXCEPT ![t].pc = "append_log"]
    /\ UNCHANGED <<wsVars, client, serial_connection, serialOpen, nSerial,
                   is_reading_serial, data_log, nextLine, lastLine, loop>>

\* data_log.append(data_point)
ReaderAppendLog(t) ==
    /\ threads[t].pc = "append_log"
    /\ data_log' = Append(data_log, threads[t].line)
    /\ threads' = [threads EXCEPT ![t].pc = "schedule"]
    /\ UNCHANGED <<wsVars, client, serial_connection, serialOpen, nSerial,
                   is_reading_serial, serial_data_buffer, nextLine, lastLine, appended, loop>>

\* asyncio.get_event_loop() called in the reader thread: a thread that has set
\* no event loop gets RuntimeError from the default policy (and nothing in the
\* program sets one); "loop" is the call handing out the server's loop, without
\* which broadcast would never run.  Both are taken.
GetEventLoopOutcomes == {"loop", "RuntimeError"}

\* asyncio.run_coroutine_threadsafe(manager.broadcast(...), asyncio.get_event_loop()):
\* the broadcast is scheduled on the loop, or get_event_loop raises into the
\* handler at line 124
ReaderSchedule(t) ==
    /\ threads[t].pc = "schedule"
    /\ \E out \in GetEventLoopOutcomes :
          IF out = "loop"
          THEN /\ bc' = [bc EXCEPT ![threads[t].line].pc = "pending"]
               /\ threads' = [threads EXCEPT ![t].pc = "while_flag", ![t].line = None]
          ELSE /\ bc' = bc
               /\ threads' = [threads EXCEPT ![t].pc = "except", ![t].line = None]
    /\ UNCHANGED <<manager, ws, peerClosed, client, serial_connection, serialOpen,
                   nSerial, is_reading_serial, dataVars, loop>>

\* except Exception: is_reading_serial = False; break
ReaderExcept(t) ==
    /\ threads[t].pc = "except"
    /\ is_reading_serial' = FALSE
    /\ threads' = [threads EXCEPT ![t].pc = "exited", ![t].err = None]
    /\ UNCHANGED <<wsVars, client, serial_connection, serialOpen, nSerial,
                   dataVars, loop>>

(* --------------------------- HTTP handlers ---------------------------- *)
\* Serial.close()
closePort(open, conn) ==
    IF conn # None /\ open[conn] THEN [open EXCEPT ![conn] = FALSE] ELSE open

\* connect_serial, lines 151-152: close the port that is open (the handler is
\* then at cs_reopen, else at cs_open)
ConnectSerialClose ==
    /\ loop = "idle"
    /\ serialOpen' = closePort(serialOpen, serial_connection)
    /\ loop' = IF SerialUp THEN "cs_reopen" ELSE "cs_open"
    /\ UNCHANGED <<wsVars, client, serial_connection, nSerial, is_reading_serial,
                   threads, dataVars>>

\* line 154: serial.Serial(...) opens the port and the global is assigned, or
\* raises and the handler returns {success: false}
ConnectSerialOpen ==
    /\ loop \in {"cs_open", "cs_reopen"}
    /\ \/ /\ nSerial < MaxThreads
          /\ nSerial' = nSerial + 1
          /\ serial_connection' = nSerial + 1
          /\ serialOpen' = [serialOpen EXCEPT ![nSerial + 1] = TRUE]
          /\ loop' = "cs_flag"
       \/ /\ loop' = "idle"
          /\ UNCHANGED <<nSerial, serial_connection, serialOpen>>
    /\ UNCHANGED <<wsVars, client, is_reading_serial, threads, dataVars>>

\* line 155: is_reading_serial = True
ConnectSerialFlag ==
    /\ loop = "cs_flag"
    /\ is_reading_serial' = TRUE
    /\ loop' = "cs_start"
    /\ UNCHANGED <<wsVars, client, serial_connection, serialOpen, nSerial, threads,
                   dataVars>>

\* lines 158-162: the reader thread starts; {success: true}
ConnectSerialStart ==
    /\ loop = "cs_start"
    /\ threads' = [threads EXCEPT ![nSerial].pc = "while_flag"]
    /\ loop' = "idle"
    /\ UNCHANGED <<wsVars, client, serial_connection, serialOpen, nSerial,
                   is_reading_serial, dataVars>>

\* disconnect_serial, line 173: is_reading_serial = False
DisconnectSerialFlag ==
    /\ loop = "idle"
    /\ is_reading_serial' = FALSE
    /\ loop' = "ds_close"
    /\ UNCHANGED <<wsVars, client, serial_connection, serialOpen, nSerial, threads,
                   dataVars>>

\* lines 175-176: an open port is closed; otherwise the handler returns
DisconnectSerialClose ==
    /\ loop = "ds_close"
    /\ serialOpen' = closePort(serialOpen, serial_connection)
    /\ loop' = IF SerialUp THEN "ds_none" ELSE "idle"
    /\ UNCHANGED <<wsVars, client, serial_connection, nSerial, is_reading_serial,
                   threads, dataVars>>

\* line 177: serial_connection = None
DisconnectSerialNone ==
    /\ loop = "ds_none"
    /\ serial_connection' = None
    /\ loop' = "idle"
    /\ UNCHANGED <<wsVars, client, serialOpen, nSerial, is_reading_serial, threads,
                   dataVars>>

\* clear_data, line 205: data_log.clear()
ClearDataLog ==
    /\ loop = "idle"
    /\ data_log' = <<>>
    /\ loop' = "cd_buffer"
    /\ UNCHANGED <<wsVars, client, serialVars, serial_data_buffer, nextLine, lastLine,
                   appended>>

\* line 206: serial_data_buffer.clear()
ClearDataBuffer ==
    /\ loop = "cd_buffer"
    /\ serial_data_buffer' = <<>>
    /\ appended' = <<>>
    /\ loop' = "idle"
    /\ UNCHANGED <<wsVars, client, serialVars, data_log, nextLine, lastLine>>

\* shutdown_event, line 378: is_reading_serial = False
ShutdownFlag ==
    /\ loop = "idle"
    /\ is_reading_serial' = FALSE
    /\ loop' = "sd_close"
    /\ UNCHANGED <<wsVars, client, serial_connection, serialOpen, nSerial, threads,
                   dataVars>>

\* lines 380-381: an open port is closed; the event loop stops
ShutdownClose ==
    /\ loop = "sd_close"
    /\ serialOpen' = closePort(serialOpen, serial_connection)
    /\ loop' = "stopped"
    /\ UNCHANGED <<wsVars, client, serial_connection, nSerial, is_reading_serial,
                   threads, dataVars>>

(* --------------------------- specification ---------------------------- *)
\* The state after the module has been loaded, with or without an API key
InitWith(key) ==
    /\ manager = ManagerInit
    /\ ws = [c \in Sockets |-> NewEndpoint]
    /\ peerClosed = [c \in Sockets |-> FALSE]
    /\ client = key
    /\ bc = [l \in Lines |-> NoBroadcast]
    /\ serial_connection = None
    /\ serialOpen = [k \in Threads |-> FALSE]
    /\ nSerial = 0
    /\ is_reading_serial = FALSE
    /\ serial_data_buffer = <<>>
    /\ data_log = <<>>
    /\ threads = [t \in Threads |-> NewThread]
    /\ loop = "idle"
    /\ nextLine = 1
    /\ lastLine = MaxLines
    /\ appended = <<>>

Init == \E key \in BOOLEAN : InitWith(key)

Endpoint(c) ==
    \/ EndpointConnect(c)
    \/ ClientClose(c)
    \/ EndpointDisconnected(c)
    \/ EndpointReceive(c)
    \/ EndpointApiReturn(c)
    \/ EndpointSendReturn(c)

Broadcast(l) ==
    \/ BroadcastBegin(l)
    \/ BroadcastSendReturn(l)

Reader(t) ==
    \/ ReaderTestFlag(t)
    \/ ReaderTestConn(t)
    \/ ReaderInWaiting(t)
    \/ ReaderReadline(t)
    \/ ReaderAppendBuffer(t)
    \/ ReaderAppendLog(t)
    \/ ReaderSchedule(t)
    \/ ReaderExcept(t)

Handler ==
    \/ ConnectSerialClose
    \/ ConnectSerialOpen
    \/ ConnectSerialFlag
    \/ ConnectSerialStart
    \/ DisconnectSerialFlag
    \/ DisconnectSerialClose
    \/ DisconnectSerialNone
    \/ ClearDataLog
    \/ ClearDataBuffer
    \/ ShutdownFlag
    \/ ShutdownClose

\* The whole program
Next ==
    \/ \E c \in Conns : Endpoint(c)
    \/ \E l \in Lines : Broadcast(l)
    \/ \E t \in Threads : Reader(t)
    \/ Handler

Spec == Init /\ [][Next]_vars

\* The parts of the program are explored apart, each from a state the whole
\* program reaches, because their product is out of reach.

\* The program, started with an API key, after one successful connect_serial
\* (port 1 open, reader 1 started), the device about to deliver n lines
InitReading(n) ==
    /\ manager = ManagerInit
    /\ ws = [c \in Sockets |-> NewEndpoint]
    /\ peerClosed = [c \in Sockets |-> FALSE]
    /\ client = TRUE
    /\ bc = [l \in Lines |-> NoBroadcast]
    /\ serial_connection = 1
    /\ serialOpen = [k \in Threads |-> k = 1]
    /\ nSerial = 1
    /\ is_reading_serial = TRUE
    /\ serial_data_buffer = <<>>
    /\ data_log = <<>>
    /\ threads = [t \in Threads |-> IF t = 1 THEN [pc |-> "while_flag", line |-> None, err |-> None]
                                    ELSE NewThread]
    /\ loop = "idle"
    /\ nextLine = 1
    /\ lastLine = n
    /\ appended = <<>>

\* The same program once reader 1 has read lines 1..RegistryLines, appended
\* them and scheduled their broadcasts, none of which has started yet
InitBroadcasting ==
    LET log == [i \in 1..RegistryLines |-> i]
    IN  /\ manager = ManagerInit
        /\ ws = [c \in Sockets |-> NewEndpoint]
        /\ peerClosed = [c \in Sockets |-> FALSE]
        /\ client = TRUE
        /\ bc = [l \in Lines |-> IF l <= RegistryLines
                                  THEN [NoBroadcast EXCEPT !.pc = "pending"]
                                  ELSE NoBroadcast]
        /\ serial_connection = 1
        /\ serialOpen = [k \in Threads |-> k = 1]
        /\ nSerial = 1
        /\ is_reading_serial = TRUE
        /\ serial_data_buffer = LastN(log, Min(BufferMaxLen, RegistryLines))
        /\ data_log = log
        /\ threads = [t \in Threads |->
                         IF t = 1 THEN [pc |-> "while_flag", line |-> None, err |-> None]
                         ELSE NewThread]
        /\ loop = "idle"
        /\ nextLine = RegistryLines + 1
        /\ lastLine = MaxLines
        /\ appended = log

\* The registry: endpoints and broadcasts
NextRegistry ==
    \/ \E c \in Conns : Endpoint(c)
    \/ \E l \in Lines : Broadcast(l)

SpecRegistry == InitBroadcasting /\ [][NextRegistry]_vars

\* The push of serial lines: endpoints, broadcasts and the reader scheduling them
NextPush ==
    \/ \E c \in Conns : Endpoint(c)
    \/ \E l \in Lines : Broadcast(l)
    \/ \E t \in Threads : Reader(t)

SpecPush == InitReading(PushLines) /\ [][NextPush]_vars

\* The serial side: reader threads and the HTTP handlers
NextSerial ==
    \/ \E t \in Threads : Reader(t)
    \/ Handler

SpecSerial == InitWith(TRUE) /\ [][NextSerial]_vars

\* The operating system runs every reader thread again and again, and a
\* handler that has started runs to its return; requests arrive as they please
HandlerReturns ==
    \/ ConnectSerialOpen
    \/ ConnectSerialFlag
    \/ ConnectSerialStart
    \/ DisconnectSerialClose
    \/ DisconnectSerialNone
    \/ ClearDataBuffer
    \/ ShutdownClose

SerialFairness ==
    /\ \A t \in Threads : WF_vars(Reader(t))
    /\ WF_vars(HandlerReturns)

SpecSerialFair == InitWith(TRUE) /\ [][NextSerial]_vars /\ SerialFairness

\* The manager alone: the endpoints of ManagerConns connections, which
\* register, exchange frames and deregister
NextManager == \E c \in Sockets : Endpoint(c)

SpecManager == InitWith(TRUE) /\ [][NextManager]_vars

\* The chat and command side: endpoints and the HTTP handlers
NextChat ==
    \/ \E c \in Conns : Endpoint(c)
    \/ Handler

SpecChat == Init /\ [][NextChat]_vars

\* The event loop runs its ready callbacks in their order of arrival: a
\* coroutine whose awaited send_text has completed is resumed however many
\* requests keep the loop busy in between, and a handler that has started runs
\* to its return; nothing makes a client send a frame or the remote API answer
ChatFairness ==
    /\ \A c \in Conns : SF_vars(EndpointSendReturn(c))
    /\ WF_vars(HandlerReturns)

SpecChatFair == Init /\ [][NextChat]_vars /\ ChatFairness

(* ------------------------------ claims -------------------------------- *)
Closed(c) == ws[c].pc = "closed"

InIds(c) == c \in DOMAIN manager.connection_ids

\* C1: a connection whose endpoint has observed its disconnect (or any other
\* exception of the receive loop) and called manager.disconnect is, from then
\* on, neither in active_connections nor a key of connection_ids
C1_ClosedNeverRegistered ==
    \A c \in Conns : Closed(c) => ~Registered(c) /\ ~InIds(c)

\* a connection was deregistered by its endpoint while a broadcast that had
\* already called its send_text was suspended, another connection registered
C1_Witness ==
    \E c \in Conns, l \in Lines :
        /\ Closed(c)
        /\ bc[l].pc = "sending"
        /\ c \in Range(bc[l].sent)
        /\ \E d \in Conns : d # c /\ Registered(d)

\* C2: a finished broadcast has called send_text exactly once on every
\* connection that was registered from its start to its end
C2_SendsToAllRegisteredThroughout ==
    \A l \in Lines :
        bc[l].pc = "done" => \A c \in bc[l].whole : Count(bc[l].sent, c) = 1

\* C3: a broadcast never raises, and once it has finished it has run over the
\* connections that remained: each one registered from its start to its end
\* has had its send_text called
C3_CompletesOverRemaining ==
    \A l \in Lines :
        /\ bc[l].pc # "raised"
        /\ bc[l].pc = "done" => bc[l].whole \subseteq Range(bc[l].sent)

\* the part of C3 the code keeps: no broadcast raises
BroadcastNeverRaises == \A l \in Lines : bc[l].pc # "raised"

\* C10: when a broadcast has finished, every connection whose send raised in
\* it is out of active_connections and connection_ids, and the broadcast has
\* removed no connection whose send did not raise
C10_FailedRemovedOthersKept ==
    \A l \in Lines :
        bc[l].pc = "done" =>
            /\ \A c \in Range(bc[l].disconnected) : ~Registered(c) /\ ~InIds(c)
            /\ bc[l].removed \subseteq Range(bc[l].disconnected)

\* a broadcast finished after two sends raised and its cleanup removed both
\* connections, or after one raised and one succeeded and only the first went
C10_Witness ==
    \E l \in Lines :
        /\ bc[l].pc = "done"
        /\ bc[l].removed # {}
        /\ Len(bc[l].sent) >= 2
        /\ \E c \in Range(bc[l].sent) : c \notin Range(bc[l].disconnected) /\ Registered(c)

\* C4: once the reader is through with a line it has read, the line is in
\* serial_data_buffer and in data_log, and unless its broadcast is still
\* scheduled or running, send_text has been called with it on every connection
\* registered ever since the line was read
C4_LinePushedToAll ==
    \A l \in Lines :
        (l < nextLine /\ \A t \in Threads : threads[t].line # l) =>
            /\ l \in Range(serial_data_buffer)
            /\ l \in Range(data_log)
            /\ bc[l].pc \in {"none", "done", "raised"} =>
                   bc[l].atRead \subseteq Range(bc[l].sent)

\* C5: serial_data_buffer never holds more than its capacity, and holds the
\* last min(capacity, k) of the k samples appended since its last clear, in
\* the order of their appends
C5_BufferHoldsMostRecent ==
    /\ Len(serial_data_buffer) <= BufferMaxLen
    /\ serial_data_buffer = LastN(appended, Min(BufferMaxLen, Len(appended)))

\* more samples than the capacity were appended since the last clear
C5_Witness ==
    /\ Len(appended) > BufferMaxLen
    /\ Len(serial_data_buffer) = BufferMaxLen

Alive(t) == threads[t].pc \notin {"unborn", "exited"}

LiveReaders == {t \in Threads : Alive(t)}

\* C6: a reader whose connection a later connect_serial has replaced exits in
\* the end, and the number of live readers is again and again at most one
C6_OldReaderExits ==
    /\ \A t \in Threads : (Alive(t) /\ nSerial > t) ~> ~Alive(t)
    /\ []<>(Cardinality(LiveReaders) <= 1)

\* disconnect_serial or shutdown_event has just cleared the flag
FlagCleared == loop \in {"ds_close", "sd_close"}

\* C7: a reader that is running when disconnect_serial or shutdown clears the
\* flag terminates in the end; a reader that leaves through the except clause
\* leaves is_reading_serial false
C7_ReaderStops ==
    /\ \A t \in Threads : (FlagCleared /\ Alive(t)) ~> ~Alive(t)
    /\ [][\A t \in Threads :
             (threads[t].pc = "except" /\ threads'[t].pc = "exited")
                 => ~is_reading_serial']_vars

ChatReplies == {"chat_response", "error"}

TextReplies == {"plain_reply", "plain_error"}

\* C8: a chat frame, JSON or plain text, does not end the endpoint, and when
\* the handler is back at receive_text it has sent one reply for it, the
\* assistant's text or an error
C8_OneReplyPerChat ==
    \A c \in Conns :
        ws[c].frame \in {"chat", "text"} =>
            /\ ws[c].pc \in {"api", "send", "receive"}
            /\ ws[c].pc \in {"send", "receive"} =>
                   ws[c].reply \in (IF ws[c].frame = "chat" THEN ChatReplies
                                    ELSE TextReplies)

\* C9: a frame that is no JSON is forwarded as the user message, so that the
\* handler is back at receive_text with the remote call's outcome relayed, and
\* the connection stays registered (unless a send to it has raised, which takes
\* the peer to be gone)
C9_TextFallsBackToChat ==
    \A c \in Conns :
        ws[c].frame = "text" =>
            /\ ws[c].pc \in {"api", "send", "receive"}
            /\ ws[c].pc = "receive" => ws[c].reply \in TextReplies
            /\ ~peerClosed[c] => Registered(c)

\* C11: manager.disconnect is idempotent: on a connection that is not
\* registered it leaves the registry as it is and does not raise, a second call
\* right after a first yields the registry the first call left, and no call the
\* program makes (the broadcasts' cleanups included) raises
C11_DisconnectIdempotent ==
    /\ \A c \in Conns :
          LET once == disconnect(manager, c)
              twice == disconnect(once.m, c)
          IN  /\ ~once.raised /\ ~twice.raised
              /\ twice.m = once.m
              /\ ~Registered(c) => once.m = manager
    /\ \A l \in Lines : bc[l].pc # "raised"

\* a broadcast's cleanup has called disconnect on a connection that its
\* endpoint had deregistered before, while another connection is registered
C11_Witness ==
    \E l \in Lines, c \in Conns :
        /\ bc[l].pc = "done"
        /\ c \in Range(bc[l].disconnected)
        /\ c \notin bc[l].removed
        /\ \E d \in Conns : Registered(d)

Stalled(c) == ws[c].pc = "api"

\* C12: while the handler of one connection is suspended in a remote call,
\* every other connection that waits for a frame can receive one and have it
\* answered (a ping gets the send of its pong), and a reply whose send is under
\* way on another connection completes, even if the remote call never returns
\* (unless the server shuts down); the stalled connection itself receives
\* nothing more until the call returns
C12_StallBlocksOnlyOwn ==
    /\ [](\A c \in Conns, d \in Conns :
            (c # d /\ Stalled(c) /\ ws[d].pc = "receive" /\ ~peerClosed[d]
                   /\ loop = "idle")
                => ENABLED (EndpointReceive(d) /\ ws'[d].reply = "pong"))
    /\ \A c \in Conns, d \in Conns :
          (c # d /\ Stalled(c) /\ ws[d].pc = "send")
              ~> (ws[d].pc # "send" \/ loop = "stopped")
    /\ [](\A c \in Conns : Stalled(c) => ~ENABLED EndpointReceive(c))

\* one connection is suspended in the remote call and another, still
\* registered, has the send of a pong under way
C12_Witness ==
    \E c \in Conns, d \in Conns :
        /\ c # d
        /\ Stalled(c)
        /\ ws[d].pc = "send" /\ ws[d].reply = "pong"
        /\ Registered(d)

\* connect_serial returns {success: false}: serial.Serial(...) has raised
ConnectSerialFails == loop \in {"cs_open", "cs_reopen"} /\ loop' = "idle"

\* C13: a connect_serial that fails to open the port returns without raising
\* and leaves the rest as it was: the flag, the global and the reader threads
\* are untouched, and a serial connection that was open before the call is
\* open after it
C13_FailedConnectLeavesPrior ==
    [][ConnectSerialFails =>
           /\ UNCHANGED <<is_reading_serial, serial_connection, threads>>
           /\ loop = "cs_reopen" =>
                  (serial_connection' # None /\ serialOpen'[serial_connection'])]_vars

\* a reader has appended its sample to the deque and not yet to the list
BetweenAppends(t) == threads[t].pc = "append_log"

\* C14: whenever no reader is between its two appends (and no clear_data is
\* between its two clears), serial_data_buffer is the last
\* min(capacity, len(data_log)) entries of data_log, in the same order
C14_BufferIsTailOfLog ==
    ((\A t \in Threads : ~BetweenAppends(t)) /\ loop # "cd_buffer") =>
        serial_data_buffer = LastN(data_log, Min(BufferMaxLen, Len(data_log)))

\* connect_serial has returned success and neither disconnect_serial nor
\* shutdown nor a later connect_serial has touched the connection since: the
\* global is the Serial object constructed last, and it is open
Connected ==
    /\ loop = "idle"
    /\ serial_connection # None
    /\ serial_connection = nSerial
    /\ serialOpen[serial_connection]

\* reader t leaves through its except clause and clears the flag
ReaderClearsFlag(t) ==
    /\ threads[t].pc = "except"
    /\ threads'[t].pc = "exited"
    /\ is_reading_serial
    /\ ~is_reading_serial'

\* C15: once connect_serial has returned success, is_reading_serial stays
\* true for as long as no disconnect_serial is called and no read of the newly
\* opened port raises: no reader, the one of an earlier connection included,
\* clears the flag for any other reason
C15_FlagStaysTrue ==
    [][\A t \in Threads :
          (Connected /\ ReaderClearsFlag(t)) => threads[t].err = serial_connection]_vars

\* C16: the receive loop of an endpoint ends, and its connection is
\* deregistered, only once the client has gone away (receive_text raises
\* WebSocketDisconnect, or a send to it raises); no frame received from a
\* client that is still there does either
C16_FramesNeverDeregister ==
    [][\A c \in Conns :
          ((Registered(c) /\ ~Registered(c)') \/ (~Closed(c) /\ Closed(c)'))
              => peerClosed[c]]_vars

\* the endpoint of c receives a serial_command frame
ReceivesSerialCommand(c) ==
    /\ ws[c].pc = "receive"
    /\ ws'[c] # ws[c]
    /\ ws'[c].frame = "serial_command"

\* C17: on a serial_command frame the handler, when a serial connection
\* exists and is open, writes the command and sends one serial_response to the
\* sender, and otherwise writes nothing and sends one "Serial port not
\* connected" error to the sender; no other connection is sent anything
C17_SerialCommandAnswered ==
    [][\A c \in Conns :
          ReceivesSerialCommand(c) =>
              /\ ws'[c].pc = "send"
              /\ ws'[c].reply = IF SerialUp THEN "serial_response" ELSE "serial_error"
              /\ \A d \in Conns \ {c} : ws'[d] = ws[d]]_vars

\* C18: active_connections holds no connection twice, and the connections it
\* holds are exactly the keys of connection_ids
C18_ListMatchesIds ==
    /\ \A c \in Range(manager.active_connections) :
          Count(manager.active_connections, c) = 1
    /\ Range(manager.active_connections) = DOMAIN manager.connection_ids

\* two connects, then one connection removed by a broadcast's cleanup after
\* its send raised and its endpoint returned since, the other still registered
C18_Witness ==
    \E l \in Lines, c \in Conns, d \in Conns :
        /\ bc[l].pc = "done"
        /\ c \in bc[l].removed
        /\ Closed(c)
        /\ manager.active_connections = <<d>>

\* C19: two connections registered at the same time carry distinct
\* identifiers (connect is always called without a client_id, so every
\* identifier is generated)
C19_IdsDistinct ==
    \A c \in Sockets, d \in Sockets :
        (c # d /\ Registered(c) /\ Registered(d) /\ InIds(c) /\ InIds(d)) =>
            manager.connection_ids[c] # manager.connection_ids[d]

====
